---- MODULE Spec2Model ----
(***************************************************************************)
(* Lifecycle of a daemon record on the rc.d (daemon_freebsd.go) and the    *)
(* launchd (darwin) service managers: Install, Remove, Start, Stop,        *)
(* Status and IsInstalled, over a filesystem holding the service           *)
(* descriptors, the boot configuration /etc/rc.conf and the service        *)
(* manager's running state.                                                *)
(***************************************************************************)
EXTENDS Integers, Sequences, FiniteSets, TLC

\* ---------------------------------------------------------------- bounds
MaxArgs == 1        \* longest list of trailing arguments given to Install
MaxPid == 2         \* process ids the status command may print are 1..MaxPid
MaxLines == 2       \* most lines of an /etc/rc.conf handed to isEnabled
MaxLineLen == 2     \* most characters of one such line
MaxText == 4        \* most characters of a status command's output

\* ------------------------------------------------------------- constants
Platforms == {"rcd", "launchd"}
Names == {"x", "y"}
ArgVals == {"--a"}
ExecFile == "/usr/bin/x"

nil == "nil"
failed == "failed"
success == "completed successfully"

ErrRootPrivileges == "ErrRootPrivileges"
ErrAlreadyInstalled == "ErrAlreadyInstalled"
ErrAlreadyRunning == "ErrAlreadyRunning"
ErrAlreadyStopped == "ErrAlreadyStopped"
ErrIncorrectExecStartPath == "ErrIncorrectExecStartPath"
\* errors passed through from the operating system
ENOENT == "ENOENT"
EIO == "EIO"
ExitError == "ExitError"
ErrNotFound == "ErrNotFound"

VARIABLES
    platform,    \* which record type the build selected
    privileged,  \* does the calling process hold administrative rights
    rec,         \* the record: name, description, execStartPath, dependencies
    fs,          \* descriptor path -> file
    running,     \* name -> is the service running under the service manager
    rcconf,      \* /etc/rc.conf
    execKind,    \* what ExecFile is on disk: file, dir, missing, or unstatable
    last,        \* the last call: operation, what it returned, what it did
    e2e,         \* progress of the end-to-end lifecycle scenario
    probeIn,     \* a status command's outcome handed to the status prober
    procs        \* the steps of two processes inside Install

vars ==
    <<platform, privileged, rec, fs, running, rcconf, execKind, last, e2e,
      probeIn, procs>>

\* ------------------------------------------------------------ the record
Description(n) == "daemon " \o n

newDaemon(name, description, execStartPath, dependencies) ==
    [name |-> name, description |-> description,
     execStartPath |-> execStartPath, dependencies |-> dependencies]

rcdServicePath(name) == "/usr/local/etc/rc.d/" \o name
launchdServicePath(name) == "/Library/LaunchDaemons/" \o name \o ".plist"

servicePath(plat, name) ==
    IF plat = "rcd" THEN rcdServicePath(name) ELSE launchdServicePath(name)

\* ------------------------------------------------------------ filesystem
NoFile == [exists |-> FALSE, content |-> <<>>, mode |-> "none"]
CreatedFile == [exists |-> TRUE, content |-> <<>>, mode |-> "0666"]

\* os.Stat of a descriptor path: nil when the file exists, ENOENT otherwise
StatErr(file) == IF file.exists THEN nil ELSE ENOENT

\* mutant: the test of the stat error inverted
IsInstalled_Inverted(file) ==
    LET err == StatErr(file)
    IN  IF err # nil THEN <<TRUE, err>> ELSE <<FALSE, err>>

\* IsInstalled returns (true, nil) when the stat succeeds, (false, err) otherwise
IsInstalled(file) ==
    LET err == StatErr(file)
    IN  IF err = nil THEN <<TRUE, err>> ELSE <<FALSE, err>>

\* checkPrivileges: (true, nil) for an administrator, (false, error) otherwise
checkPrivileges(priv) ==
    IF priv THEN <<TRUE, nil>> ELSE <<FALSE, ErrRootPrivileges>>

\* ---------------------------------------------- enablement checker (rc.d)
\* /etc/rc.conf is a list of lines; a line is a list of characters in which
\* the text <name>_enable="YES" is kept as one element.
EnableTok(name) == name \o "_enable=\"YES\""

Unreadable == [readable |-> FALSE, lines |-> <<>>]
Conf(lines) == [readable |-> TRUE, lines |-> lines]

RcConfSamples ==
    { Unreadable,
      Conf(<<>>),
      Conf(<< <<EnableTok("x")>> >>),
      Conf(<< <<"#", EnableTok("x")>> >>),
      Conf(<< <<" ", EnableTok("x")>> >>),
      Conf(<< <<"#", EnableTok("x")>>, <<EnableTok("y")>> >>) }

LineMatches(line, name) == \E i \in 1..Len(line) : line[i] = EnableTok(name)

\* r.Find: the leftmost match of .*<name>_enable="YES".* is the whole first
\* line that holds the text; no match gives the empty string
RECURSIVE FindLine(_, _)
FindLine(lines, name) ==
    IF Len(lines) = 0 THEN <<>>
    ELSE IF LineMatches(Head(lines), name) THEN Head(lines)
    ELSE FindLine(Tail(lines), name)

\* the loop over the characters of the match: chrFound at its exit
RECURSIVE ScanChrFound(_)
ScanChrFound(v) ==
    IF Len(v) = 0 THEN FALSE
    ELSE IF Head(v) = "#" THEN FALSE
    ELSE IF Head(v) # " " THEN TRUE
    ELSE ScanChrFound(Tail(v))

isEnabled(conf, name) ==
    IF ~conf.readable THEN <<FALSE, EIO>>
    ELSE <<ScanChrFound(FindLine(conf.lines, name)), nil>>

\* mutant: the test of the enablement check inverted
getCmd_Inverted(conf, name, cmd) ==
    LET r == isEnabled(conf, name)
    IN  IF r[1] \/ r[2] # nil THEN "one" \o cmd ELSE cmd

getCmd(conf, name, cmd) ==
    LET r == isEnabled(conf, name)
    IN  IF ~r[1] \/ r[2] # nil THEN "one" \o cmd ELSE cmd

\* the command line of a service-manager command, and what building it reads
RcConfRead == "open /etc/rc.conf"

\* mutant: rc.conf is read once for the log line and once more for the verb
ServiceCmd_ReadsTwice(plat, name, cmd) ==
    IF plat = "rcd"
    THEN <<RcConfRead, RcConfRead,
           "service " \o name \o " " \o getCmd(rcconf, name, cmd)>>
    ELSE IF cmd = "status" THEN <<"launchctl list " \o name>>
    ELSE IF cmd = "start" THEN <<"launchctl load " \o launchdServicePath(name)>>
    ELSE <<"launchctl unload " \o launchdServicePath(name)>>

ServiceCmd(plat, name, cmd) ==
    IF plat = "rcd"
    THEN <<RcConfRead, "service " \o name \o " " \o getCmd(rcconf, name, cmd)>>
    ELSE IF cmd = "status" THEN <<"launchctl list " \o name>>
    ELSE IF cmd = "start" THEN <<"launchctl load " \o launchdServicePath(name)>>
    ELSE <<"launchctl unload " \o launchdServicePath(name)>>

\* ---------------------------------------------------------- status prober
\* what the status command gave: did it fail, does its output hold the name,
\* and the digits of the process-id marker (0: no marker)
StatusOut(err, hasName, pid) == [err |-> err, hasName |-> hasName, pid |-> pid]

StatusOutputs(isRunning) ==
    IF isRunning
    THEN {StatusOut(FALSE, TRUE, p) : p \in 0..MaxPid} \cup {StatusOut(TRUE, FALSE, 0)}
    ELSE {StatusOut(TRUE, FALSE, 0), StatusOut(FALSE, FALSE, 0)}

Msg(action, pid, suffix) == [action |-> action, pid |-> pid, suffix |-> suffix]
NoMsg == Msg("", 0, "")

\* mutant: running only when the process-id marker is found
checkRunning_NeedsPid(out) ==
    IF ~out.err /\ out.hasName /\ out.pid > 0
    THEN <<Msg("Service (pid  ", out.pid, ") is running..."), TRUE>>
    ELSE <<Msg("Service is stopped", 0, ""), FALSE>>

checkRunning(out) ==
    IF ~out.err /\ out.hasName
    THEN IF out.pid > 0
         THEN <<Msg("Service (pid  ", out.pid, ") is running..."), TRUE>>
         ELSE <<Msg("Service is running...", 0, ""), TRUE>>
    ELSE <<Msg("Service is stopped", 0, ""), FALSE>>

\* ----------------------------------------------------- descriptor renderer
RECURSIVE Join(_)
Join(args) ==
    IF Len(args) = 0 THEN ""
    ELSE IF Len(args) = 1 THEN args[1]
    ELSE args[1] \o " " \o Join(Tail(args))

\* the pieces templ.Execute writes, in the template's order: each value the
\* template substitutes, after the text that introduces it (a value the
\* template repeats is kept once; .Description is in neither template)
bsdConfig(r, args) ==
    <<"name=", r.name, "command=", r.execStartPath, "start_cmd=", Join(args)>>

propertyList(r, args) ==
    <<"Label", r.name, "ProgramArguments", r.execStartPath>> \o args

Render(plat, r, args) ==
    IF plat = "rcd" THEN bsdConfig(r, args) ELSE propertyList(r, args)

RECURSIVE SeqsUpTo(_, _)
SeqsUpTo(S, n) ==
    IF n = 0 THEN {<<>>}
    ELSE SeqsUpTo(S, n - 1) \cup
         {Append(s, a) : s \in {t \in SeqsUpTo(S, n - 1) : Len(t) = n - 1}, a \in S}

ArgLists == SeqsUpTo(ArgVals, MaxArgs)

\* -------------------------------------------------- executable path resolver
Argv0s == {<<>>, <<".", "/", "d">>, <<"d">>}
CwdDir == "/root"

Resolved(path, err, pnc) == [path |-> path, err |-> err, panic |-> pnc]

\* execPath of daemon_freebsd.go: name[0] of an empty os.Args[0] is out of range
bsdExecPath(argv0, lookOk) ==
    IF Len(argv0) = 0 THEN Resolved("", nil, TRUE)
    ELSE IF argv0[1] = "."
    THEN \* filepath.Abs, then filepath.Clean
         IF lookOk THEN Resolved(ExecFile, nil, FALSE) ELSE Resolved("", EIO, FALSE)
    ELSE \* exec.LookPath
         IF lookOk THEN Resolved(ExecFile, nil, FALSE) ELSE Resolved("", ErrNotFound, FALSE)

\* execPath of the launchd build: filepath.Abs(os.Args[0]); Abs("") is the
\* working directory
darwinExecPath(argv0, lookOk) ==
    IF ~lookOk THEN Resolved("", EIO, FALSE)
    ELSE IF Len(argv0) = 0 THEN Resolved(CwdDir, nil, FALSE)
    ELSE Resolved(ExecFile, nil, FALSE)

execPath(plat, argv0, lookOk) ==
    IF plat = "rcd" THEN bsdExecPath(argv0, lookOk) ELSE darwinExecPath(argv0, lookOk)

\* executablePath(name): the path resolver, which asks execPath
executablePath(plat, name, argv0, lookOk) == execPath(plat, argv0, lookOk)

\* what os.Stat finds at an execution path
PathKind(path) ==
    IF path = ExecFile THEN execKind
    ELSE IF path = CwdDir THEN "dir"
    ELSE "missing"

\* ------------------------------------------------------- the call record
SrvPath == servicePath(platform, rec.name)

\* the state a call starts from
Pre ==
    [privileged |-> privileged, file |-> fs[SrvPath],
     running |-> running[rec.name], execStartPath |-> rec.execStartPath,
     enabled |-> isEnabled(rcconf, rec.name)]

\* what a call gave back: the (message, error) pair, the boolean of
\* IsInstalled, the verdict of the status probe when it ran ("none" when it
\* did not), the file operations and commands of the call in order, and
\* whether the call faulted instead of returning
Out(msg, err, ret, probe, trace, pnc) ==
    [msg |-> msg, err |-> err, ret |-> ret, probe |-> probe, trace |-> trace,
     panic |-> pnc]

Fail(action, err, trace) == Out(Msg(action, 0, failed), err, FALSE, "none", trace, FALSE)
Ok(action, trace) == Out(Msg(action, 0, success), nil, FALSE, "none", trace, FALSE)
Panic(trace) == Out(NoMsg, nil, FALSE, "none", trace, TRUE)

NoCall ==
    [op |-> "none", name |-> "", out |-> Out(NoMsg, nil, FALSE, "none", <<>>, FALSE),
     path |-> "",
     pre |-> [privileged |-> FALSE, file |-> NoFile, running |-> FALSE,
              execStartPath |-> "", enabled |-> <<FALSE, nil>>]]

\* the end-to-end scenario: the calls of the lifecycle, in order
Script ==
    <<"Install", "IsInstalled", "Start", "Status", "Stop", "Status", "Remove",
      "IsInstalled">>

Dead == [alive |-> FALSE, steps |-> <<>>]

\* the scenario goes on while the calls follow the script and nothing fails
\* underneath them; it records what each call returned
Track(op, clean, out) ==
    IF e2e.alive /\ clean /\ Len(e2e.steps) < Len(Script)
       /\ op = Script[Len(e2e.steps) + 1]
    THEN [alive |-> TRUE,
          steps |-> Append(e2e.steps,
                           [op |-> op, msg |-> out.msg, err |-> out.err,
                            ret |-> out.ret])]
    ELSE Dead

\* a call ends: what it gave back and the state it leaves
Done(op, out, newRec, newFile, newRunning, clean) ==
    /\ last' = [op |-> op, name |-> rec.name, out |-> out,
                path |-> newRec.execStartPath, pre |-> Pre]
    /\ rec' = newRec
    /\ fs' = [fs EXCEPT ![SrvPath] = newFile]
    /\ running' = [running EXCEPT ![rec.name] = newRunning]
    /\ e2e' = Track(op, clean /\ ~out.panic, out)
    /\ UNCHANGED <<platform, privileged, rcconf, execKind, probeIn, procs>>

\* last: the operation called, the record's name, what the call gave back,
\* the record's execution path when it ended, and the state it started from

\* a call that ends without touching the record, the file or the service
Return(op, out, clean) == Done(op, out, rec, fs[SrvPath], running[rec.name], clean)

\* ------------------------------------------------------------- operations
StatDescriptor == "stat " \o SrvPath

IsInstalledCall ==
    LET inst == IsInstalled(fs[SrvPath])
    IN  Return("IsInstalled",
               Out(NoMsg, inst[2], inst[1], "none", <<StatDescriptor>>, FALSE), TRUE)

\* Install, from os.Create on: create, parse, execute, chmod (rc.d only)
InstallWrite(action, r, args, trace) ==
    \E createOk \in BOOLEAN, chmodOk \in BOOLEAN :
    \E written \in 0..Len(Render(platform, r, args)) :
        LET text == Render(platform, r, args)
            t1 == Append(trace, "create " \o SrvPath)
            t2 == t1 \o <<"parse template", "execute template">>
            t3 == Append(t2, "chmod " \o SrvPath)
            partial == [CreatedFile EXCEPT !.content = SubSeq(text, 1, written)]
            full == [CreatedFile EXCEPT !.content = text]
        IN  IF ~createOk
            THEN Done("Install", Fail(action, EIO, t1), r, fs[SrvPath],
                      running[rec.name], FALSE)
            ELSE IF written < Len(text)
            THEN Done("Install", Fail(action, EIO, t2), r, partial,
                      running[rec.name], FALSE)
            ELSE IF platform = "rcd" /\ ~chmodOk
            THEN Done("Install", Fail(action, EIO, t3), r, full,
                      running[rec.name], FALSE)
            ELSE IF platform = "rcd"
            THEN Done("Install", Ok(action, t3), r, [full EXCEPT !.mode = "0755"],
                      running[rec.name], TRUE)
            ELSE Done("Install", Ok(action, t2), r, full, running[rec.name], TRUE)

\* mutant: the stat.IsDir() test dropped
InstallStat_NoDirCheck(action, r, args, trace) ==
    LET kind == PathKind(r.execStartPath)
        t == Append(trace, "stat " \o r.execStartPath)
    IN  IF kind = "missing"
        THEN Done("Install", Fail(action, ErrIncorrectExecStartPath, t), r,
                  fs[SrvPath], running[rec.name], FALSE)
        ELSE InstallWrite(action, r, args, t)

\* Install, from the stat of the execution path on
InstallStat(action, r, args, trace) ==
    LET kind == PathKind(r.execStartPath)
        t == Append(trace, "stat " \o r.execStartPath)
    IN  IF kind = "missing" \/ kind = "dir"
        THEN Done("Install", Fail(action, ErrIncorrectExecStartPath, t), r,
                  fs[SrvPath], running[rec.name], FALSE)
        ELSE IF kind = "unstatable"
        THEN \* stat is nil and stat.IsDir() dereferences it
             Done("Install", Panic(t), r, fs[SrvPath], running[rec.name], FALSE)
        ELSE InstallWrite(action, r, args, t)

Install(args) ==
    LET action == "Install " \o rec.description \o ":"
        priv == checkPrivileges(privileged)
        inst == IsInstalled(fs[SrvPath])
        t == <<StatDescriptor>>
    IN  IF ~priv[1]
        THEN Return("Install", Fail(action, priv[2], <<>>), TRUE)
        ELSE IF inst[1]
        THEN Return("Install", Fail(action, inst[2], t), TRUE)
        ELSE IF rec.execStartPath = ""
        THEN \E argv0 \in Argv0s, lookOk \in BOOLEAN :
               LET res == executablePath(platform, rec.name, argv0, lookOk)
                   r == [rec EXCEPT !.execStartPath = res.path]
                   tr == Append(t, "resolve executable path")
               IN  IF res.panic
                   THEN Done("Install", Panic(tr), rec, fs[SrvPath],
                             running[rec.name], FALSE)
                   ELSE IF res.err # nil
                   THEN Done("Install", Fail(action, res.err, tr), r, fs[SrvPath],
                             running[rec.name], FALSE)
                   ELSE InstallStat(action, r, args, tr)
        ELSE InstallStat(action, rec, args, t)

\* mutant: Remove stops the service before it deletes the descriptor
Remove_StopsService ==
    LET action == "Removing " \o rec.description \o ":"
        priv == checkPrivileges(privileged)
        inst == IsInstalled(fs[SrvPath])
        t == <<StatDescriptor>>
    IN  IF ~priv[1]
        THEN Return("Remove", Fail(action, priv[2], <<>>), TRUE)
        ELSE IF ~inst[1]
        THEN Return("Remove", Fail(action, inst[2], t), TRUE)
        ELSE \E removeOk \in BOOLEAN :
               LET tr == (t \o ServiceCmd(platform, rec.name, "stop"))
                            \o <<"remove " \o SrvPath>>
               IN  IF ~removeOk
                   THEN Done("Remove", Fail(action, EIO, tr), rec, fs[SrvPath],
                             FALSE, FALSE)
                   ELSE Done("Remove", Ok(action, tr), rec, NoFile, FALSE, TRUE)

Remove ==
    LET action == "Removing " \o rec.description \o ":"
        priv == checkPrivileges(privileged)
        inst == IsInstalled(fs[SrvPath])
        t == <<StatDescriptor>>
    IN  IF ~priv[1]
        THEN Return("Remove", Fail(action, priv[2], <<>>), TRUE)
        ELSE IF ~inst[1]
        THEN Return("Remove", Fail(action, inst[2], t), TRUE)
        ELSE \E removeOk \in BOOLEAN :
               LET tr == Append(t, "remove " \o SrvPath)
               IN  IF ~removeOk
                   THEN Return("Remove", Fail(action, EIO, tr), FALSE)
                   ELSE Done("Remove", Ok(action, tr), rec, NoFile,
                             running[rec.name], TRUE)

ProbeVerdict(probe) == IF probe[2] THEN "running" ELSE "stopped"

\* the status command answered for the service as it is: it did not fail on a
\* running service
HonestStatus(o, isRunning) == isRunning => (~o.err /\ o.hasName)

\* mutant: the already-running check dropped
StartRefused_Never(probe) == FALSE

\* Start goes on to the start command unless the probe says running
StartRefused(probe) == probe[2]

\* mutant: the already-stopped check dropped
StopRefused_Never(probe) == FALSE

\* Stop goes on to the stop command unless the probe says not running
StopRefused(probe) == ~probe[2]

Start ==
    LET action == "Starting " \o rec.description \o ":"
        priv == checkPrivileges(privileged)
        inst == IsInstalled(fs[SrvPath])
        t == <<StatDescriptor>>
    IN  IF ~priv[1]
        THEN Return("Start", Fail(action, priv[2], <<>>), TRUE)
        ELSE IF ~inst[1]
        THEN Return("Start", Fail(action, inst[2], t), TRUE)
        ELSE \E o \in StatusOutputs(running[rec.name]), runOk \in BOOLEAN :
               LET probe == checkRunning(o)
                   t1 == t \o ServiceCmd(platform, rec.name, "status")
                   t2 == t1 \o ServiceCmd(platform, rec.name, "start")
                   faithful == HonestStatus(o, running[rec.name])
               IN  IF StartRefused(probe)
                   THEN Return("Start",
                               [Fail(action, ErrAlreadyRunning, t1)
                                  EXCEPT !.probe = ProbeVerdict(probe)], faithful)
                   ELSE IF ~runOk
                   THEN Return("Start",
                               [Fail(action, ExitError, t2)
                                  EXCEPT !.probe = ProbeVerdict(probe)], FALSE)
                   ELSE Done("Start",
                             [Ok(action, t2) EXCEPT !.probe = ProbeVerdict(probe)],
                             rec, fs[SrvPath], TRUE, faithful)

Stop ==
    LET action == "Stopping " \o rec.description \o ":"
        priv == checkPrivileges(privileged)
        inst == IsInstalled(fs[SrvPath])
        t == <<StatDescriptor>>
    IN  IF ~priv[1]
        THEN Return("Stop", Fail(action, priv[2], <<>>), TRUE)
        ELSE IF ~inst[1]
        THEN Return("Stop", Fail(action, inst[2], t), TRUE)
        ELSE \E o \in StatusOutputs(running[rec.name]), runOk \in BOOLEAN :
               LET probe == checkRunning(o)
                   t1 == t \o ServiceCmd(platform, rec.name, "status")
                   t2 == t1 \o ServiceCmd(platform, rec.name, "stop")
                   faithful == HonestStatus(o, running[rec.name])
               IN  IF StopRefused(probe)
                   THEN Return("Stop",
                               [Fail(action, ErrAlreadyStopped, t1)
                                  EXCEPT !.probe = ProbeVerdict(probe)], faithful)
                   ELSE IF ~runOk
                   THEN Return("Stop",
                               [Fail(action, ExitError, t2)
                                  EXCEPT !.probe = ProbeVerdict(probe)], FALSE)
                   ELSE Done("Stop",
                             [Ok(action, t2) EXCEPT !.probe = ProbeVerdict(probe)],
                             rec, fs[SrvPath], FALSE, faithful)

\* mutant: a stopped service is reported as an error, as Stop does
Status_ErrWhenStopped ==
    LET priv == checkPrivileges(privileged)
        inst == IsInstalled(fs[SrvPath])
        t == <<StatDescriptor>>
    IN  IF ~priv[1]
        THEN Return("Status", Out(NoMsg, priv[2], FALSE, "none", <<>>, FALSE), TRUE)
        ELSE IF ~inst[1]
        THEN Return("Status",
                    Out(Msg("Status could not defined", 0, ""), inst[2], FALSE,
                        "none", t, FALSE), TRUE)
        ELSE \E o \in StatusOutputs(running[rec.name]) :
               LET probe == checkRunning(o)
                   t1 == t \o ServiceCmd(platform, rec.name, "status")
               IN  IF ~probe[2]
                   THEN Return("Status",
                               Out(NoMsg, ErrAlreadyStopped, FALSE,
                                   ProbeVerdict(probe), t1, FALSE),
                               HonestStatus(o, running[rec.name]))
                   ELSE Return("Status",
                               Out(probe[1], nil, FALSE, ProbeVerdict(probe), t1,
                                   FALSE),
                               HonestStatus(o, running[rec.name]))

\* mutant: the descriptor is looked for before the privileges are checked
Status_StatFirst ==
    LET priv == checkPrivileges(privileged)
        inst == IsInstalled(fs[SrvPath])
        t == <<StatDescriptor>>
    IN  IF ~inst[1]
        THEN Return("Status",
                    Out(Msg("Status could not defined", 0, ""), inst[2], FALSE,
                        "none", t, FALSE), TRUE)
        ELSE IF ~priv[1]
        THEN Return("Status", Out(NoMsg, priv[2], FALSE, "none", t, FALSE), TRUE)
        ELSE \E o \in StatusOutputs(running[rec.name]) :
               LET probe == checkRunning(o)
                   t1 == t \o ServiceCmd(platform, rec.name, "status")
               IN  Return("Status",
                          Out(probe[1], nil, FALSE, ProbeVerdict(probe), t1, FALSE),
                          HonestStatus(o, running[rec.name]))

Status ==
    LET priv == checkPrivileges(privileged)
        inst == IsInstalled(fs[SrvPath])
        t == <<StatDescriptor>>
    IN  IF ~priv[1]
        THEN Return("Status", Out(NoMsg, priv[2], FALSE, "none", <<>>, FALSE), TRUE)
        ELSE IF ~inst[1]
        THEN Return("Status",
                    Out(Msg("Status could not defined", 0, ""), inst[2], FALSE,
                        "none", t, FALSE), TRUE)
        ELSE \E o \in StatusOutputs(running[rec.name]) :
               LET probe == checkRunning(o)
                   t1 == t \o ServiceCmd(platform, rec.name, "status")
               IN  Return("Status",
                          Out(probe[1], nil, FALSE, ProbeVerdict(probe), t1, FALSE),
                          HonestStatus(o, running[rec.name]))

\* Run: calls the executable's Run and reports completion
RunExecutable == "e.Run()"

\* mutant: Run guarded by the privilege check of the other operations
Run_ChecksPrivileges ==
    LET action == "Running " \o rec.description \o ":"
        priv == checkPrivileges(privileged)
    IN  IF ~priv[1]
        THEN Return("Run", Fail(action, priv[2], <<>>), TRUE)
        ELSE Return("Run",
                    Out(Msg(action, 0, " completed."), nil, FALSE, "none",
                        <<RunExecutable>>, FALSE), TRUE)

Run ==
    LET action == "Running " \o rec.description \o ":"
    IN  Return("Run",
               Out(Msg(action, 0, " completed."), nil, FALSE, "none",
                   <<RunExecutable>>, FALSE), TRUE)

\* ------------------------------------------------------------ environment
\* the next call comes from a process with other rights
SetPrivileged ==
    /\ privileged' = ~privileged
    /\ e2e' = Dead
    /\ UNCHANGED <<platform, rec, fs, running, rcconf, execKind, last, probeIn,
                   procs>>

\* the caller builds another record with the factory
NewDaemon ==
    \E path \in {"", ExecFile} :
        /\ rec' = newDaemon(rec.name, rec.description, path, rec.dependencies)
        /\ rec' # rec
        /\ e2e' = Dead
        /\ UNCHANGED <<platform, privileged, fs, running, rcconf, execKind, last,
                       probeIn, procs>>

\* somebody edits /etc/rc.conf between two calls
EditRcConf ==
    /\ platform = "rcd"
    /\ rcconf' \in RcConfSamples \ {rcconf}
    /\ e2e' = Dead
    /\ UNCHANGED <<platform, privileged, rec, fs, running, execKind, last, probeIn,
                   procs>>

\* nothing is handed to the prober, no process is inside Install
NoProbe == [name |-> <<>>, err |-> FALSE, text |-> <<>>, called |-> FALSE,
            msg |-> NoMsg, running |-> FALSE]
NoProcs == <<>>

\* a descriptor left by an earlier successful Install of the name
Installed(plat, n) ==
    [exists |-> TRUE,
     content |-> Render(plat, newDaemon(n, Description(n), ExecFile, <<>>), <<>>),
     mode |-> IF plat = "rcd" THEN "0755" ELSE "0666"]

TypeOK ==
    /\ platform \in Platforms
    /\ privileged \in BOOLEAN
    /\ rec.name \in Names
    /\ rec.execStartPath \in {"", ExecFile, CwdDir}
    /\ \A n \in Names : running[n] \in BOOLEAN
    /\ rcconf \in RcConfSamples
    /\ execKind \in {"file", "dir", "missing", "unstatable"}

Init ==
    /\ platform \in Platforms
    /\ privileged \in BOOLEAN
    /\ \E n \in Names, path \in {"", ExecFile} :
          rec = newDaemon(n, Description(n), path, <<>>)
    /\ fs \in {[p \in {servicePath(platform, n) : n \in Names} |->
                   IF p = servicePath(platform, rec.name) THEN f ELSE NoFile] :
                f \in {NoFile, Installed(platform, rec.name)}}
    /\ running = [n \in Names |-> FALSE]
    /\ rcconf \in (IF platform = "rcd" THEN RcConfSamples ELSE {Unreadable})
    /\ execKind \in {"file", "dir", "missing", "unstatable"}
    /\ last = NoCall
    /\ probeIn = NoProbe
    /\ procs = NoProcs
    /\ e2e = [alive |-> privileged /\ execKind = "file"
                          /\ ~fs[servicePath(platform, rec.name)].exists,
              steps |-> <<>>]

Next ==
    \/ \E args \in ArgLists : Install(args)
    \/ Remove
    \/ Start
    \/ Stop
    \/ Status
    \/ IsInstalledCall
    \/ Run
    \/ SetPrivileged
    \/ NewDaemon
    \/ EditRcConf

Spec == Init /\ [][Next]_vars

\* ------------------------------------------------------ reading a call
Mutating == {"Install", "Remove", "Start", "Stop"}
Lifecycle == Mutating \cup {"Status"}

LastPath == servicePath(platform, last.name)
LastFailed == last.out.msg.suffix = failed
LastSucceeded == last.out.msg.suffix = success

InTrace(e) == \E i \in 1..Len(last.out.trace) : last.out.trace[i] = e

StartCmds(n) ==
    {"service " \o n \o " start", "service " \o n \o " onestart",
     "launchctl load " \o launchdServicePath(n)}
StopCmds(n) ==
    {"service " \o n \o " stop", "service " \o n \o " onestop",
     "launchctl unload " \o launchdServicePath(n)}

IssuedStart == \E c \in StartCmds(last.name) : InTrace(c)
IssuedStop == \E c \in StopCmds(last.name) : InTrace(c)

\* ------------------------------------------------------------------ claims

\* C1: for every call of Install, Remove, Start and Stop the returned error
\* is non-nil exactly when the returned message carries the failure suffix.
C1_ErrorIffFailureSuffix ==
    (last.op \in Mutating /\ ~last.out.panic) =>
        /\ last.out.msg.suffix \in {failed, success}
        /\ (last.out.err # nil) <=> LastFailed

\* C2: Install by a privileged caller on a name whose descriptor exists
\* returns AlreadyInstalledError, a non-nil error, and leaves the descriptor
\* as it was.
C2_AlreadyInstalledError ==
    (last.op = "Install" /\ last.pre.privileged /\ last.pre.file.exists) =>
        /\ last.out.err = ErrAlreadyInstalled
        /\ last.out.err # nil
        /\ fs[LastPath] = last.pre.file

\* C3: an IsInstalled call that follows a successful Install (no other
\* operation in between) returns true, one that follows a successful Remove
\* returns false, and every IsInstalled call returns whether the descriptor
\* file exists at the path derived from the name, whatever the caller's
\* rights, the running state and the file's content.
C3_IsInstalledFollowsDescriptor ==
    [][IsInstalledCall =>
         /\ (last.op = "Install" /\ LastSucceeded) => last'.out.ret = TRUE
         /\ (last.op = "Remove" /\ LastSucceeded) => last'.out.ret = FALSE
         /\ last'.out.ret = fs[servicePath(platform, rec.name)].exists]_vars

C3_Witness ==
    /\ e2e.alive /\ Len(e2e.steps) = Len(Script)
    /\ e2e.steps[1].op = "Install" /\ e2e.steps[1].msg.suffix = success
    /\ e2e.steps[2].op = "IsInstalled" /\ e2e.steps[2].ret
    /\ e2e.steps[7].op = "Remove" /\ e2e.steps[7].msg.suffix = success
    /\ e2e.steps[8].op = "IsInstalled" /\ ~e2e.steps[8].ret

\* C4: a Start whose status probe reports the installed service running
\* returns ErrAlreadyRunning with the failure message, issues no start
\* command and leaves the running state as it was.
C4_StartWhenRunning ==
    (last.op = "Start" /\ last.out.probe = "running") =>
        /\ last.pre.file.exists
        /\ last.out.err = ErrAlreadyRunning
        /\ LastFailed
        /\ ~IssuedStart
        /\ running[last.name] = last.pre.running

C4_Witness ==
    /\ last.op = "Start" /\ last.out.probe = "running"
    /\ last.pre.file.exists /\ last.pre.running

\* C5: a stop command is issued only by a Stop whose caller is privileged,
\* whose descriptor exists and whose probe reports running; Stop by a
\* privileged caller on an installed service that is not running (or that
\* the probe reports stopped) returns ErrAlreadyStopped, and Stop on a
\* service that is not installed returns a non-nil error (the not-found
\* error of the descriptor's stat, for a privileged caller) with the failure
\* message; neither issues a stop command.
C5_StopPreconditions ==
    /\ IssuedStop =>
          /\ last.op = "Stop"
          /\ last.pre.privileged /\ last.pre.file.exists
          /\ last.out.probe = "running"
    /\ (last.op = "Stop" /\ last.pre.privileged /\ last.pre.file.exists
          /\ (~last.pre.running \/ last.out.probe = "stopped")) =>
          /\ last.out.err = ErrAlreadyStopped /\ LastFailed /\ ~IssuedStop
    /\ (last.op = "Stop" /\ ~last.pre.file.exists) =>
          /\ last.out.err # nil /\ LastFailed /\ ~IssuedStop
          /\ last.pre.privileged => last.out.err = ENOENT

C5_Witness ==
    /\ last.op = "Stop" /\ IssuedStop /\ LastSucceeded
    /\ last.pre.running /\ ~running[last.name]

\* C6: a call of Install, Remove, Start, Stop or Status by a caller without
\* privileges returns the privilege error and does nothing else: no stat, no
\* read of rc.conf, no command, no file created or deleted, the record's
\* execution path unchanged.
C6_PrivilegesFirst ==
    [][(~privileged /\ ((\E args \in ArgLists : Install(args)) \/ Remove \/ Start
                          \/ Stop \/ Status)) =>
         /\ last'.out.err = ErrRootPrivileges
         /\ last'.out.trace = <<>>
         /\ last'.out.probe = "none"
         /\ last'.op \in Mutating => last'.out.msg.suffix = failed
         /\ UNCHANGED <<rec, fs, running, rcconf>>]_vars

C6_Witness ==
    /\ last.op \in Lifecycle /\ ~last.pre.privileged
    /\ last.pre.file.exists /\ last.pre.running
    /\ last.out.err = ErrRootPrivileges

\* C7: an Install that fails from a state where the descriptor did not exist
\* leaves the descriptor path non-existent.
C7_FailedInstallLeavesNoFile ==
    (last.op = "Install" /\ ~last.pre.file.exists /\ (LastFailed \/ last.out.panic)) =>
        ~fs[LastPath].exists

\* C8: Install checks privileges, then not-installed, then the execution
\* path: without privileges it returns the privilege error whatever else
\* holds; with the descriptor present it fails at that check without looking
\* at the execution path, also when that path is bad; and with privileges, no
\* descriptor and an execution path (given or resolved) that is missing or a
\* directory it returns ErrIncorrectExecStartPath with the failure message
\* and creates no file.
C8_InstallPreconditionOrder ==
    last.op = "Install" =>
        /\ ~last.pre.privileged =>
              /\ last.out.err = ErrRootPrivileges /\ last.out.trace = <<>>
        /\ (last.pre.privileged /\ last.pre.file.exists) =>
              /\ LastFailed
              /\ last.out.err # ErrIncorrectExecStartPath
              /\ last.out.trace = <<"stat " \o LastPath>>
              /\ last.path = last.pre.execStartPath
              /\ fs[LastPath] = last.pre.file
        /\ (last.pre.privileged /\ ~last.pre.file.exists
              /\ InTrace("stat " \o last.path)
              /\ PathKind(last.path) \in {"missing", "dir"}) =>
              /\ LastFailed
              /\ last.out.err = ErrIncorrectExecStartPath
              /\ ~InTrace("create " \o LastPath)
              /\ ~fs[LastPath].exists
        /\ InTrace("create " \o LastPath) =>
              /\ last.pre.privileged /\ ~last.pre.file.exists
              /\ last.path # "" /\ PathKind(last.path) = "file"

C8_Witness ==
    /\ last.op = "Install" /\ last.pre.privileged /\ last.pre.file.exists
    /\ last.pre.execStartPath = ExecFile /\ execKind \in {"missing", "dir"}
    /\ LastFailed

\* C9: no operation aborts the calling process; every call returns a
\* (message, error) value.
C9_NoOperationFaults == ~last.out.panic

\* C10: from a not-installed, not-running service, a privileged caller, a
\* valid execution path and a service manager that honours its commands, the
\* calls Install, IsInstalled, Start, Status, Stop, Status, Remove,
\* IsInstalled give success, true, success, running, success, stopped,
\* success, false.
RunningMsgs == {"Service is running...", "Service (pid  "}

C10_EndToEnd ==
    \A i \in 1..Len(e2e.steps) :
        LET st == e2e.steps[i]
        IN  /\ st.op = Script[i]
            /\ i \in {1, 3, 5, 7} => (st.msg.suffix = success /\ st.err = nil)
            /\ i = 2 => st.ret = TRUE
            /\ i = 4 => (st.msg.action \in RunningMsgs /\ st.err = nil)
            /\ i = 6 => (st.msg.action = "Service is stopped" /\ st.err = nil)
            /\ i = 8 => st.ret = FALSE

C10_Witness ==
    /\ e2e.alive /\ Len(e2e.steps) = Len(Script)
    /\ ~fs[servicePath(platform, rec.name)].exists /\ ~running[rec.name]

\* ------------------------------------------- isEnabled over all rc.conf
\* every /etc/rc.conf of at most MaxLines lines of at most MaxLineLen
\* characters: space, '#', another character, and the text
\* <name>_enable="YES"
ConfChars(n) == {" ", "#", "z", EnableTok(n)}
ConfLines(n) == SeqsUpTo(ConfChars(n), MaxLineLen)
AllConfs(n) == {Unreadable} \cup {Conf(l) : l \in SeqsUpTo(ConfLines(n), MaxLines)}

InitEnabled ==
    /\ platform = "rcd"
    /\ privileged \in BOOLEAN
    /\ \E n \in Names : rec = newDaemon(n, Description(n), ExecFile, <<>>)
    /\ fs = [p \in {servicePath(platform, n) : n \in Names} |-> NoFile]
    /\ running = [n \in Names |-> FALSE]
    /\ rcconf \in AllConfs(rec.name)
    /\ execKind = "file"
    /\ last = NoCall
    /\ probeIn = NoProbe
    /\ procs = NoProcs
    /\ e2e = Dead

isEnabledCall ==
    LET r == isEnabled(rcconf, rec.name)
    IN  Return("isEnabled", Out(NoMsg, r[2], r[1], "none", <<RcConfRead>>, FALSE),
               TRUE)

NextEnabled == isEnabledCall

SpecEnabled == InitEnabled /\ [][NextEnabled]_vars

\* a line whose first character that is not a space exists and is not '#'
ActiveLine(line) ==
    \E j \in 1..Len(line) :
        /\ line[j] # " " /\ line[j] # "#"
        /\ \A k \in 1..(j - 1) : line[k] = " "

\* C11: isEnabled returns enabled exactly when /etc/rc.conf is readable and
\* holds a line matching <name>_enable="YES" whose first non-space character
\* is not '#'; an unreadable file gives false.
C11_EnabledIffActiveLine ==
    last.op = "isEnabled" =>
        (last.out.ret <=>
            /\ rcconf.readable
            /\ \E i \in 1..Len(rcconf.lines) :
                  /\ LineMatches(rcconf.lines[i], last.name)
                  /\ ActiveLine(rcconf.lines[i]))

\* C12: on rc.d every service command of Start, Stop and Status is built
\* right after a read of /etc/rc.conf made in the same call, and carries the
\* persistent verb exactly when the enablement check of that call returned
\* enabled without error, the one-shot verb otherwise.
Verbs == {"start", "stop", "status"}
PersistentCmds(n) == {"service " \o n \o " " \o v : v \in Verbs}
OneShotCmds(n) == {"service " \o n \o " one" \o v : v \in Verbs}

C12_VerbFollowsEnablement ==
    (platform = "rcd" /\ last.op \in {"Start", "Stop", "Status"}) =>
        LET t == last.out.trace
            cmds == PersistentCmds(last.name) \cup OneShotCmds(last.name)
        IN  \A i \in 1..Len(t) :
              /\ t[i] \in cmds =>
                    /\ i > 1 /\ t[i - 1] = RcConfRead
                    /\ t[i] \in PersistentCmds(last.name)
                          <=> last.pre.enabled = <<TRUE, nil>>
              /\ t[i] = RcConfRead => (i < Len(t) /\ t[i + 1] \in cmds)

\* a Start that used the persistent verbs, seen after rc.conf was edited so
\* that the service is no longer enabled
C12_Witness ==
    /\ platform = "rcd" /\ last.op = "Start"
    /\ InTrace("service " \o last.name \o " status")
    /\ InTrace("service " \o last.name \o " start")
    /\ ~isEnabled(rcconf, last.name)[1]

\* ------------------------------------ checkRunning over all command outputs
\* The output of the status command is a list of characters in which the
\* text that opens a process-id marker is kept as one element; a service name
\* is a list of characters.
PidMarker(plat) == IF plat = "rcd" THEN "pid  " ELSE "PID\" = "
Digits == {ToString(d) : d \in 1..MaxPid}
DigitVal(c) == CHOOSE d \in 1..MaxPid : ToString(d) = c
TextChars == {"a", ".", ";", PidMarker("rcd"), PidMarker("launchd")} \cup Digits
ProbeNames == {<<"a">>, <<"a", ".">>}

\* regexp.MatchString(name, output): the name is the pattern, so its '.'
\* stands for any character
MatchString(name, text) ==
    \E off \in 0..(Len(text) - Len(name)) :
        \A i \in 1..Len(name) : name[i] = "." \/ name[i] = text[off + i]

\* the digits that follow position i, as far as they go
RECURSIVE DigitRun(_, _)
DigitRun(text, i) ==
    IF i <= Len(text) /\ text[i] \in Digits
    THEN <<text[i]>> \o DigitRun(text, i + 1)
    ELSE <<>>

RECURSIVE Decimal(_)
Decimal(run) ==
    IF Len(run) = 0 THEN 0
    ELSE 10 * Decimal(SubSeq(run, 1, Len(run) - 1)) + DigitVal(run[Len(run)])

\* does "pid  ([0-9]+)", or "PID\" = ([0-9]+);" on launchd, match at i
MarkerAt(plat, text, i) ==
    LET run == DigitRun(text, i + 1)
    IN  /\ text[i] = PidMarker(plat)
        /\ Len(run) > 0
        /\ plat = "launchd" =>
              (i + Len(run) + 1 <= Len(text) /\ text[i + Len(run) + 1] = ";")

\* reg.FindStringSubmatch: the digits of the leftmost match, none without one
SubmatchDigits(plat, text) ==
    LET at == {i \in 1..Len(text) : MarkerAt(plat, text, i)}
    IN  IF at = {} THEN <<>>
        ELSE DigitRun(text, (CHOOSE i \in at : \A j \in at : i <= j) + 1)

\* what checkRunning makes of a command's error and output
ParseOutput(plat, name, err, text) ==
    StatusOut(err, MatchString(name, text), Decimal(SubmatchDigits(plat, text)))

InitProbe ==
    /\ platform \in Platforms
    /\ privileged = TRUE
    /\ rec = newDaemon("x", Description("x"), ExecFile, <<>>)
    /\ fs = [p \in {servicePath(platform, n) : n \in Names} |-> NoFile]
    /\ running = [n \in Names |-> FALSE]
    /\ rcconf = Unreadable
    /\ execKind = "file"
    /\ last = NoCall
    /\ e2e = Dead
    /\ procs = NoProcs
    /\ \E n \in ProbeNames, e \in BOOLEAN, t \in SeqsUpTo(TextChars, MaxText) :
          probeIn = [NoProbe EXCEPT !.name = n, !.err = e, !.text = t]

checkRunningCall ==
    /\ ~probeIn.called
    /\ LET r == checkRunning(ParseOutput(platform, probeIn.name, probeIn.err,
                                         probeIn.text))
       IN  probeIn' = [probeIn EXCEPT !.called = TRUE, !.msg = r[1],
                                      !.running = r[2]]
    /\ UNCHANGED <<platform, privileged, rec, fs, running, rcconf, execKind, last,
                   e2e, procs>>

NextProbe == checkRunningCall

SpecProbe == InitProbe /\ [][NextProbe]_vars

\* the output holds the name, character for character
ContainsName(name, text) ==
    \E off \in 0..(Len(text) - Len(name)) :
        \A i \in 1..Len(name) : name[i] = text[off + i]

\* C13: the prober returns not-running with the stopped message whenever the
\* command failed or its output does not contain the name; otherwise it
\* returns running, with the digits of the platform's process-id marker in
\* the message when the marker is there and the generic message when not.
C13_ProbeVerdict ==
    probeIn.called =>
        LET digits == SubmatchDigits(platform, probeIn.text)
        IN  IF probeIn.err \/ ~ContainsName(probeIn.name, probeIn.text)
            THEN ~probeIn.running /\ probeIn.msg = Msg("Service is stopped", 0, "")
            ELSE /\ probeIn.running
                 /\ IF Len(digits) > 0
                    THEN probeIn.msg = Msg("Service (pid  ", Decimal(digits),
                                           ") is running...")
                    ELSE probeIn.msg = Msg("Service is running...", 0, "")

\* C14: Status by a privileged caller on an installed service returns the
\* message the prober makes of the status command's output of that call, with
\* a nil error, whatever the verdict; on a service that is not installed it
\* returns a non-nil error without running the status command; it never
\* changes the descriptor, the running state or the record.
StatusCmds(n) ==
    {"service " \o n \o " status", "service " \o n \o " onestatus",
     "launchctl list " \o n}

C14_StatusDelegates ==
    [][Status =>
         /\ (privileged /\ fs[SrvPath].exists) =>
               /\ last'.out.err = nil
               /\ \E o \in StatusOutputs(running[rec.name]) :
                     /\ last'.out.msg = checkRunning(o)[1]
                     /\ last'.out.probe = ProbeVerdict(checkRunning(o))
               /\ \E c \in StatusCmds(rec.name) :
                     last'.out.trace[Len(last'.out.trace)] = c
         /\ ~fs[SrvPath].exists =>
               /\ last'.out.err # nil
               /\ \A i \in 1..Len(last'.out.trace) :
                     last'.out.trace[i] \notin StatusCmds(rec.name)
         /\ UNCHANGED <<fs, running, rec, rcconf>>]_vars

\* Status called twice in the lifecycle: running after Start, stopped after Stop
C14_Witness ==
    /\ e2e.alive /\ Len(e2e.steps) = 6 /\ last.op = "Status"
    /\ e2e.steps[4].msg.action \in RunningMsgs /\ e2e.steps[4].err = nil
    /\ e2e.steps[6].msg.action = "Service is stopped" /\ e2e.steps[6].err = nil

\* C15: Run checks nothing: whatever the caller's rights, the descriptor and
\* the running state, it calls the executable's Run once and does nothing
\* else, then returns the completion message with a nil error; the
\* descriptor, the running state and the record are as before.
C15_RunUnconditional ==
    last.op = "Run" =>
        /\ last.out.trace = <<RunExecutable>>
        /\ last.out.msg = Msg("Running " \o Description(last.name) \o ":", 0,
                              " completed.")
        /\ last.out.err = nil
        /\ ~last.out.panic
        /\ last.out.probe = "none"
        /\ fs[LastPath] = last.pre.file
        /\ running[last.name] = last.pre.running
        /\ last.path = last.pre.execStartPath

C15_Witness ==
    /\ last.op = "Run" /\ ~last.pre.privileged
    /\ ~last.pre.file.exists /\ last.pre.running
    /\ last.out.err = nil

\* C16: the descriptor a successful Install writes holds the record's name,
\* its description, the execution path and the trailing arguments, the
\* arguments one entry each and in the order given (joined by spaces in the
\* command line of the rc.d script).
Holds(content, v) == \E i \in 1..Len(content) : content[i] = v

\* the arguments are entries of the content, one after the other
HoldsInOrder(content, args) ==
    \E off \in 0..(Len(content) - Len(args)) :
        \A i \in 1..Len(args) : content[off + i] = args[i]

C16_DescriptorEmbedsRecord ==
    [][\A args \in ArgLists :
         (Install(args) /\ last'.out.msg.suffix = success) =>
            LET content == fs'[SrvPath].content
            IN  /\ Holds(content, rec.name)
                /\ Holds(content, rec.description)
                /\ Holds(content, rec'.execStartPath)
                /\ IF platform = "rcd" THEN Holds(content, Join(args))
                   ELSE HoldsInOrder(content, args)]_vars

\* the steps of a call that are neither a file operation nor a subprocess
InMemory == {"parse template", "resolve executable path"}

\* the file operations and subprocess invocations of the last call
Operations == {i \in 1..Len(last.out.trace) : last.out.trace[i] \notin InMemory}
Subprocesses ==
    {i \in 1..Len(last.out.trace) :
        last.out.trace[i] \in StartCmds(last.name) \cup StopCmds(last.name)
                              \cup StatusCmds(last.name)}

\* C17 as stated: each lifecycle operation performs at most one subprocess
\* invocation or file operation between its call and its return.
C17_AtMostOneOperation ==
    last.op \in Lifecycle => Cardinality(Operations) <= 1

\* C17, amended: each lifecycle operation performs a bounded sequence of
\* them: at most two subprocess invocations (the status probe and the start
\* or stop command) and at most five operations in all, counting the stats
\* of the descriptor and of the execution path, the reads of rc.conf, the
\* creation, writing, chmod and removal of the descriptor and the commands.
C17_BoundedOperations ==
    last.op \in Lifecycle =>
        /\ Cardinality(Subprocesses) <= 2
        /\ Cardinality(Operations) <= 5
        /\ last.op \in {"Install", "Remove"} => Subprocesses = {}
        /\ last.op = "Status" => Cardinality(Subprocesses) <= 1

C17_Witness ==
    /\ last.op = "Start" /\ LastSucceeded
    /\ Cardinality(Subprocesses) = 2
    /\ Cardinality(Operations) = 5

\* C18: no operation changes /etc/rc.conf or the record's name, description
\* and dependencies; Start, Stop, Status and IsInstalled leave every
\* descriptor and the record as they are; Install and Remove run no
\* service-manager command and leave the running state; the record's
\* execution path changes only in an Install that found it empty.
AnyInstall == \E args \in ArgLists : Install(args)
AnyOperation ==
    AnyInstall \/ Remove \/ Start \/ Stop \/ Status \/ IsInstalledCall \/ Run

NoServiceCmd(trace) ==
    \A i \in 1..Len(trace) :
        trace[i] \notin StartCmds(rec.name) \cup StopCmds(rec.name)
                            \cup StatusCmds(rec.name)

ReadOnlyFrame == fs' = fs /\ rec' = rec /\ rcconf' = rcconf
RunFrame == rec' = rec /\ rcconf' = rcconf
RemoveFrame ==
    /\ rec' = rec /\ rcconf' = rcconf
    /\ running' = running
    /\ NoServiceCmd(last'.out.trace)
InstallFrame ==
    /\ rcconf' = rcconf
    /\ running' = running
    /\ NoServiceCmd(last'.out.trace)
    /\ rec'.name = rec.name
    /\ rec'.description = rec.description
    /\ rec'.dependencies = rec.dependencies
    /\ rec'.execStartPath # rec.execStartPath => rec.execStartPath = ""

\* each conjunct reads (operation => frame): an operation records its own
\* name in last'.op, so only the steps carrying that name are examined
C18_Frame ==
    [][/\ last'.op \in {"Start", "Stop", "Status", "IsInstalled"} =>
             (ReadOnlyFrame \/ ~(Start \/ Stop \/ Status \/ IsInstalledCall))
       /\ last'.op = "Run" => (RunFrame \/ ~Run)
       /\ last'.op = "Remove" => (RemoveFrame \/ ~Remove)
       /\ last'.op = "Install" => (InstallFrame \/ ~AnyInstall)]_vars

\* an Install that filled in the empty execution path
C18_Witness ==
    /\ last.op = "Install" /\ LastSucceeded
    /\ last.pre.execStartPath = "" /\ last.path = ExecFile
    /\ rec.execStartPath = ExecFile

\* C19: Remove by a privileged caller on an existing descriptor ends the same
\* way whether or not the service runs: it runs no command, leaves the
\* running state, and reports success exactly when os.Remove deleted the
\* file; so a service can be running and not installed, and there Stop fails
\* without a stop command.
C19_RemoveIgnoresRunning ==
    /\ (last.op = "Remove" /\ last.pre.privileged /\ last.pre.file.exists) =>
          /\ Subprocesses = {}
          /\ running[last.name] = last.pre.running
          /\ LastSucceeded \/ LastFailed
          /\ LastSucceeded => (~fs[LastPath].exists /\ last.out.err = nil)
          /\ LastFailed => (fs[LastPath] = last.pre.file /\ last.out.err = EIO)
    /\ (last.op = "Stop" /\ last.pre.running /\ ~last.pre.file.exists) =>
          /\ LastFailed /\ last.out.err # nil
          /\ ~IssuedStop
          /\ running[last.name]

\* Stop called on a service that runs and whose descriptor was removed
C19_Witness ==
    /\ last.op = "Stop" /\ last.pre.privileged
    /\ last.pre.running /\ ~last.pre.file.exists
    /\ running[last.name] /\ ~fs[LastPath].exists

\* ------------------------------------------- two processes inside Install
\* Two processes call Install for the same name, each with its own arguments;
\* every system call of the call is one step, and the steps interleave.
Pids == {"p", "q"}

\* a process at the start of Install: where it is, its arguments, what it
\* found at the descriptor's path when it called os.Create, how many pieces
\* of the template it has written, and what the call returned
RaceProc(args) ==
    [pc |-> "check", args |-> args, over |-> "none", written |-> 0,
     result |-> "none", err |-> nil]

InitRace ==
    /\ platform \in Platforms
    /\ privileged = TRUE
    /\ rec = newDaemon("x", Description("x"), ExecFile, <<>>)
    /\ fs = [p \in {servicePath(platform, n) : n \in Names} |-> NoFile]
    /\ running = [n \in Names |-> FALSE]
    /\ rcconf = Unreadable
    /\ execKind = "file"
    /\ last = NoCall
    /\ e2e = Dead
    /\ probeIn = NoProbe
    /\ procs \in [Pids -> {RaceProc(a) : a \in ArgLists}]

RaceFrame ==
    UNCHANGED <<platform, privileged, rec, running, rcconf, execKind, last, e2e,
                probeIn>>

RaceReturn(p, result, err) ==
    procs' = [procs EXCEPT ![p].pc = "done", ![p].result = result, ![p].err = err]

\* checkPrivileges and the IsInstalled test
RaceCheck(p) ==
    /\ procs[p].pc = "check"
    /\ LET priv == checkPrivileges(privileged)
           inst == IsInstalled(fs[SrvPath])
       IN  IF ~priv[1] THEN RaceReturn(p, failed, priv[2])
           ELSE IF inst[1] THEN RaceReturn(p, failed, inst[2])
           ELSE procs' = [procs EXCEPT ![p].pc = "stat"]
    /\ UNCHANGED fs
    /\ RaceFrame

\* os.Stat of the execution path
RaceStat(p) ==
    /\ procs[p].pc = "stat"
    /\ IF PathKind(rec.execStartPath) \in {"missing", "dir"}
       THEN RaceReturn(p, failed, ErrIncorrectExecStartPath)
       ELSE procs' = [procs EXCEPT ![p].pc = "create"]
    /\ UNCHANGED fs
    /\ RaceFrame

\* os.Create: creates the file, or truncates the one that is there
RaceCreate(p) ==
    /\ procs[p].pc = "create"
    /\ \E createOk \in BOOLEAN :
          IF ~createOk
          THEN RaceReturn(p, failed, EIO) /\ UNCHANGED fs
          ELSE /\ fs' = [fs EXCEPT ![SrvPath] =
                            IF fs[SrvPath].exists
                            THEN [fs[SrvPath] EXCEPT !.content = <<>>]
                            ELSE CreatedFile]
               /\ procs' = [procs EXCEPT
                               ![p].pc = "write",
                               ![p].over = IF fs[SrvPath].exists THEN "present"
                                           ELSE "absent"]
    /\ RaceFrame

\* a write at a position of the file: past the end it leaves a hole
Hole == "hole"
WriteAt(content, k, piece) ==
    IF k <= Len(content) THEN [content EXCEPT ![k] = piece]
    ELSE content \o [i \in 1..(k - Len(content)) |->
                        IF i = k - Len(content) THEN piece ELSE Hole]

\* templ.Execute writes the next piece at the position of the process's own
\* file handle
RaceWrite(p) ==
    /\ procs[p].pc = "write"
    /\ LET text == Render(platform, rec, procs[p].args)
           k == procs[p].written + 1
       IN  /\ fs' = [fs EXCEPT ![SrvPath].content = WriteAt(@, k, text[k])]
           /\ IF k < Len(text)
              THEN procs' = [procs EXCEPT ![p].written = k]
              ELSE IF platform = "rcd"
              THEN procs' = [procs EXCEPT ![p].written = k, ![p].pc = "chmod"]
              ELSE procs' = [procs EXCEPT ![p].written = k, ![p].pc = "done",
                                          ![p].result = success]
    /\ RaceFrame

\* os.Chmod(srvPath, 0755), on rc.d only
RaceChmod(p) ==
    /\ procs[p].pc = "chmod"
    /\ \E chmodOk \in BOOLEAN :
          IF ~chmodOk
          THEN RaceReturn(p, failed, EIO) /\ UNCHANGED fs
          ELSE /\ fs' = [fs EXCEPT ![SrvPath].mode = "0755"]
               /\ RaceReturn(p, success, nil)
    /\ RaceFrame

NextRace ==
    \E p \in Pids :
        RaceCheck(p) \/ RaceStat(p) \/ RaceCreate(p) \/ RaceWrite(p) \/ RaceChmod(p)

SpecRace == InitRace /\ [][NextRace]_vars

\* C20: with two processes inside Install for the same name, os.Create acts
\* on the descriptor only where the file does not exist, at most one of the
\* two calls reports success, and once a call has reported success the file
\* holds the text that call wrote.
C20_CreateOnlyWhenAbsent ==
    /\ \A p \in Pids : procs[p].over # "present"
    /\ Cardinality({p \in Pids : procs[p].result = success}) <= 1
    /\ \A p \in Pids :
          procs[p].result = success =>
              fs[SrvPath].content = Render(platform, rec, procs[p].args)

====
